---- MODULE Spec2Model ----
(***************************************************************************)
(* Model of src/app/page.tsx: the PokemonPage component, its four useState *)
(* cells, the two async fetch routines, the search handler and the         *)
(* abilities rendering.                                                    *)
(*                                                                         *)
(* Strings are sequences of one-character strings.  Every continuation of  *)
(* an async routine (the code between two awaits) is one action: the page  *)
(* runs on a single event loop, so a continuation is never interleaved     *)
(* with another handler.                                                   *)
(***************************************************************************)
EXTENDS Integers, Sequences, FiniteSets, TLC

VARIABLES
    mounted,      \* the mount effect (useEffect, []) has run
    searchTerm,   \* useState('')
    pokemonList,  \* useState<Pokemon[]>([])
    isLoading,    \* useState(false)
    error,        \* useState<string | null>(null)
    fetches,      \* the calls of the two async routines, in call order
    ev,           \* the step taken last: operation, call, requests issued
    abilities,    \* abilities of the creature whose card is rendered
    shown         \* the abilities text rendered for it

vars == <<mounted, searchTerm, pokemonList, isLoading, error, fetches,
          ev, abilities, shown>>

-----------------------------------------------------------------------------
(* Bounds *)

MaxFetches == 2        \* calls of the fetch routines in one run (Spec)
MaxMembers == 1        \* length of a membership list answered in Spec
MaxBatchMembers == 22  \* length of a membership list answered in SpecBatch
ReorderWindow == 1     \* how many of the oldest pending member requests
                       \* may answer next (the newest pending one always
                       \* may); every order for batches of up to
                       \* ReorderWindow + 1 requests
MaxAbilities == 2      \* abilities of a rendered creature
MaxAbilityLen == 3     \* characters of an ability name

-----------------------------------------------------------------------------
(* Text *)

\* the texts typed in the search box: empty, blank, and a name with blanks
\* before it, after it and around it
SearchTexts ==
    {<<>>, <<" ">>, <<"A">>, <<" ", "A">>, <<"A", " ">>, <<" ", "A", " ">>}

AbilityChars == {"a", "-"}

RECURSIVE StringsUpTo(_, _)
StringsUpTo(chars, n) ==
    IF n = 0 THEN {<<>>}
    ELSE LET shorter == StringsUpTo(chars, n - 1)
         IN  shorter \cup {Append(s, c) : s \in shorter, c \in chars}

IsSpace(c) == c = " "

RECURSIVE TrimStart(_)
TrimStart(s) ==
    IF s # <<>> /\ IsSpace(Head(s)) THEN TrimStart(Tail(s)) ELSE s

RECURSIVE TrimEnd(_)
TrimEnd(s) ==
    IF s # <<>> /\ IsSpace(s[Len(s)])
    THEN TrimEnd(SubSeq(s, 1, Len(s) - 1))
    ELSE s

\* String.prototype.trim
trim(s) == TrimEnd(TrimStart(s))

\* the letters of the model are "A" and "a"
LowerChar(c) == IF c = "A" THEN "a" ELSE c

\* String.prototype.toLowerCase
toLowerCase(s) == [i \in 1..Len(s) |-> LowerChar(s[i])]

-----------------------------------------------------------------------------
(* The remote data source *)

\* keys of typeColors, in the order of the object literal
typeColors ==
    <<"fire", "water", "grass", "electric", "psychic", "ice", "dragon",
      "dark", "fairy", "normal", "fighting", "flying", "poison", "ground",
      "rock", "bug", "ghost", "steel">>

\* the type buttons pressed in the model
TypeButtons == {typeColors[1], typeColors[2]}

NameUrl(name) == <<"pokemon/">> \o toLowerCase(name)

TypeUrl(type) == <<"type/">> \o toLowerCase(<<type>>)

\* the creature endpoint a membership reference points at
MemberUrl(id) == <<"pokemon/", ToString(id), "/">>

\* data.pokemon of a type answer with n members: the references p.pokemon.url
\* in the order of the answer (descending ids, so that the order of the list
\* is not the order of the ids)
Membership(n) == [i \in 1..n |-> MemberUrl(n + 1 - i)]

\* the parsed JSON body answered for url; ok is the answer's response.ok
Body(url, ok) == [url |-> url, ok |-> ok]

\* a slot of the Promise.all result array that is not filled yet
Pending == [url |-> <<>>, ok |-> FALSE]

NameMessage == "Pokemon not found. Please try another name."

TypeMessage == "Failed to load Pokemon by type. Please try again."

null == "null"   \* the null of useState<string | null>: neither message

-----------------------------------------------------------------------------
(* Calls of the async routines *)

\* a call that has run up to its first await: one request is out
NewFetch(kind, url) ==
    [kind |-> kind, pc |-> "fetch", urls |-> <<url>>, members |-> <<>>,
     values |-> <<>>, got |-> {}]

\* a call that has returned: nothing of it is left but its place in the order
\* of the calls
Returned ==
    [kind |-> "returned", pc |-> "done", urls |-> <<>>, members |-> <<>>,
     values |-> <<>>, got |-> {}]

InFlight == {k \in 1..Len(fetches) : fetches[k].pc # "done"}

\* op: the operation; f: the call it belongs to (0: none); input: the kind of
\* answer the step handled; arg: the argument a fetch routine was called
\* with; reqs: the requests the step issued; members: the membership list of
\* the call (data.pokemon), and values: the Promise.all array, when the call
\* returns
Event(op, k, input, arg, reqs) ==
    [op |-> op, f |-> k, input |-> input, arg |-> arg, reqs |-> reqs,
     members |-> <<>>, values |-> <<>>]

BatchEvent(op, k, input, members, values) ==
    [Event(op, k, input, <<>>, <<>>) EXCEPT !.members = members,
                                            !.values = values]

Render == UNCHANGED <<abilities, shown>>

-----------------------------------------------------------------------------
(* The state writes of the routines *)

\* lines 61-62 and 77-78
Enter == isLoading' = TRUE /\ error' = null

\* (mutant) a catch block that forgets setPokemonList([])
CatchNameKeepsList == error' = NameMessage /\ UNCHANGED pokemonList

\* lines 67-69
CatchName == error' = NameMessage /\ pokemonList' = <<>>

\* (mutant) a catch block that shows the members fetched so far
CatchTypeShowsPartial(k) ==
    /\ error' = TypeMessage
    /\ pokemonList' = SelectSeq(fetches[k].values, LAMBDA v : v.url # <<>>)

\* lines 88-90; k is the call whose batch or membership request failed
CatchType(k) == error' = TypeMessage /\ pokemonList' = <<>>

\* lines 70-72 and 91-93
Finally == isLoading' = FALSE

\* the routine returns
Return(k) == fetches' = [fetches EXCEPT ![k] = Returned]

-----------------------------------------------------------------------------
(* fetchPokemonByName, lines 59-73 *)

\* the call up to the await of line 63
CallByName(name) ==
    /\ Enter
    /\ fetches' = Append(fetches, NewFetch("name", NameUrl(name)))
    /\ UNCHANGED pokemonList

\* the fetch of line 63 answers: r is "reject" (network failure), "notok"
\* (response.ok false, line 64 throws) or "ok"
NameResponse(k, r) ==
    /\ k \in InFlight
    /\ fetches[k].kind = "name"
    /\ fetches[k].pc = "fetch"
    /\ IF r = "ok"
       THEN /\ fetches' = [fetches EXCEPT ![k].pc = "json"]
            /\ ev' = Event("nameResponse", k, <<r>>, <<>>, <<>>)
            /\ UNCHANGED <<pokemonList, isLoading, error>>
       ELSE /\ CatchName
            /\ Finally
            /\ Return(k)
            /\ ev' = Event("nameFailed", k, <<r>>, <<>>, <<>>)
    /\ UNCHANGED <<mounted, searchTerm>>
    /\ Render

\* response.json() of line 65 settles: the body parses or it does not
NameJson(k, parsed) ==
    /\ k \in InFlight
    /\ fetches[k].kind = "name"
    /\ fetches[k].pc = "json"
    /\ IF parsed
       THEN /\ pokemonList' = <<Body(fetches[k].urls[1], TRUE)>>
            /\ UNCHANGED error
            /\ Finally
            /\ Return(k)
            /\ ev' = Event("nameLoaded", k, <<"parsed">>, <<>>, <<>>)
       ELSE /\ CatchName
            /\ Finally
            /\ Return(k)
            /\ ev' = Event("nameFailed", k, <<"malformed">>, <<>>, <<>>)
    /\ UNCHANGED <<mounted, searchTerm>>
    /\ Render

-----------------------------------------------------------------------------
(* fetchPokemonByType, lines 75-94 *)

SliceEnd == 20   \* slice(0, 20), line 82

Min(a, b) == IF a < b THEN a ELSE b

\* data.pokemon.slice(0, 20).map(p => p.pokemon.url), line 82
pokemonUrls(members) == SubSeq(members, 1, Min(SliceEnd, Len(members)))

\* (mutant) an aggregate that collects the values in the order of arrival
FillNextSlot(values, i, v) ==
    LET free == {j \in 1..Len(values) : values[j].url = <<>>}
        first == CHOOSE j \in free : \A h \in free : j <= h
    IN  [values EXCEPT ![first] = v]

\* Promise.all stores the value of the i-th promise at index i
FillSlot(values, i, v) == [values EXCEPT ![i] = v]

\* the member requests that may answer next: the ReorderWindow oldest pending
\* ones and the newest pending one
MayAnswer(f) ==
    LET pending == (1..Len(f.urls)) \ f.got
        older(i) == {j \in pending : j < i}
    IN  {i \in pending :
            \/ Cardinality(older(i)) < ReorderWindow
            \/ \A j \in pending : j <= i}

\* the call up to the await of line 79
CallByType(type) ==
    /\ Enter
    /\ fetches' = Append(fetches, NewFetch("type", TypeUrl(type)))
    /\ ev' = Event("fetchPokemonByType", Len(fetches) + 1, <<>>, <<type>>,
                   <<TypeUrl(type)>>)
    /\ UNCHANGED pokemonList

\* the fetch of line 79 answers: "reject", "notok" (line 80 throws) or "ok"
TypeResponse(k, r) ==
    /\ k \in InFlight
    /\ fetches[k].kind = "type"
    /\ fetches[k].pc = "fetch"
    /\ IF r = "ok"
       THEN /\ fetches' = [fetches EXCEPT ![k].pc = "json"]
            /\ ev' = Event("typeResponse", k, <<r>>, <<>>, <<>>)
            /\ UNCHANGED <<pokemonList, isLoading, error>>
       ELSE /\ CatchType(k)
            /\ Finally
            /\ Return(k)
            /\ ev' = Event("typeFailed", k, <<r>>, <<>>, <<>>)
    /\ UNCHANGED <<mounted, searchTerm>>
    /\ Render

\* response.json() of line 81 rejects, or data has no pokemon array and
\* line 82 throws
TypeMalformed(k) ==
    /\ k \in InFlight
    /\ fetches[k].kind = "type"
    /\ fetches[k].pc = "json"
    /\ CatchType(k)
    /\ Finally
    /\ Return(k)
    /\ ev' = Event("typeFailed", k, <<"malformed">>, <<>>, <<>>)
    /\ UNCHANGED <<mounted, searchTerm>>
    /\ Render

\* response.json() of line 81 answers a membership list of n references:
\* lines 82-86 up to the await of Promise.all, which for an empty batch is
\* already resolved, so that lines 87 and 92 follow
TypeJson(k, n) ==
    /\ k \in InFlight
    /\ fetches[k].kind = "type"
    /\ fetches[k].pc = "json"
    /\ LET urls == pokemonUrls(Membership(n))
       IN  IF urls = <<>>
           THEN /\ pokemonList' = <<>>
                /\ UNCHANGED error
                /\ Finally
                /\ Return(k)
                /\ ev' = BatchEvent("typeLoaded", k, <<"parsed">>,
                                    Membership(n), <<>>)
           ELSE /\ fetches' = [fetches EXCEPT
                       ![k].pc = "members",
                       ![k].urls = urls,
                       ![k].members = Membership(n),
                       ![k].values = [i \in 1..Len(urls) |-> Pending]]
                /\ ev' = Event("typeMembers", k, <<"parsed">>, <<>>, urls)
                /\ UNCHANGED <<pokemonList, isLoading, error>>
    /\ UNCHANGED <<mounted, searchTerm>>
    /\ Render

\* the member request i of lines 84-85 rejects (network failure, or a body
\* that does not parse): Promise.all rejects and the catch block runs
MemberReject(k, i) ==
    /\ k \in InFlight
    /\ fetches[k].pc = "members"
    /\ i \in MayAnswer(fetches[k])
    /\ CatchType(k)
    /\ Finally
    /\ Return(k)
    /\ ev' = BatchEvent("typeFailed", k, <<"member">>, fetches[k].members,
                        fetches[k].values)
    /\ UNCHANGED <<mounted, searchTerm>>
    /\ Render

\* the member request i of lines 84-85 answers a JSON body, with a 2xx status
\* (ok) or not: res.ok is not read.  With the last answer Promise.all
\* resolves, and lines 87 and 92 run
MemberAnswer(k, i, ok) ==
    /\ k \in InFlight
    /\ fetches[k].pc = "members"
    /\ i \in MayAnswer(fetches[k])
    /\ LET f == fetches[k]
           values == FillSlot(f.values, i, Body(f.urls[i], ok))
       IN  IF f.got \cup {i} = 1..Len(f.urls)
           THEN /\ pokemonList' = values
                /\ UNCHANGED error
                /\ Finally
                /\ Return(k)
                /\ ev' = BatchEvent("typeLoaded", k, <<"member">>, f.members,
                                    values)
           ELSE /\ fetches' = [fetches EXCEPT ![k].values = values,
                                              ![k].got = @ \cup {i}]
                /\ ev' = Event("memberAnswer", k, <<"member">>, <<>>, <<>>)
                /\ UNCHANGED <<pokemonList, isLoading, error>>
    /\ UNCHANGED <<mounted, searchTerm>>
    /\ Render

-----------------------------------------------------------------------------
(* The component: mount effect and event handlers *)

\* useEffect(() => fetchPokemonByType('fire'), []), lines 103-105
Mount ==
    /\ ~mounted
    /\ mounted' = TRUE
    /\ CallByType("fire")
    /\ UNCHANGED searchTerm
    /\ Render

\* onChange of the search box, line 125
InputChange(value) ==
    /\ mounted
    /\ searchTerm' = value
    /\ ev' = Event("onChange", 0, <<>>, <<>>, <<>>)
    /\ UNCHANGED <<mounted, pokemonList, isLoading, error, fetches>>
    /\ Render

\* (mutant) a test of the text as typed
ShouldSearchUntrimmed(term) == term # <<>>

\* the test of line 98
ShouldSearch(term) == trim(term) # <<>>

\* handleSearch, lines 96-101; the submit button is disabled while isLoading
\* (line 133), and a form whose submit button is disabled is not submitted
handleSearch ==
    /\ mounted
    /\ ~isLoading
    /\ IF ShouldSearch(searchTerm)
       THEN /\ Len(fetches) < MaxFetches
            /\ CallByName(searchTerm)
            /\ ev' = Event("handleSearch", Len(fetches) + 1, <<>>,
                           searchTerm, <<NameUrl(searchTerm)>>)
       ELSE /\ ev' = Event("handleSearch", 0, <<>>, <<>>, <<>>)
            /\ UNCHANGED <<pokemonList, isLoading, error, fetches>>
    /\ UNCHANGED <<mounted, searchTerm>>
    /\ Render

\* onClick of a type button, line 154
TypeClick(type) ==
    /\ mounted
    /\ Len(fetches) < MaxFetches
    /\ CallByType(type)
    /\ UNCHANGED <<mounted, searchTerm>>
    /\ Render

-----------------------------------------------------------------------------
(* Abilities text of a card, lines 234-236 *)

\* String.prototype.replace with a string pattern: the first occurrence only
RECURSIVE replace(_, _, _)
replace(s, pattern, by) ==
    IF s = <<>> THEN <<>>
    ELSE IF Head(s) = pattern THEN <<by>> \o Tail(s)
    ELSE <<Head(s)>> \o replace(Tail(s), pattern, by)

\* Array.prototype.join
RECURSIVE join(_, _)
join(strings, sep) ==
    IF strings = <<>> THEN <<>>
    ELSE IF Len(strings) = 1 THEN strings[1]
    ELSE strings[1] \o sep \o join(Tail(strings), sep)

AbilitiesText(names) ==
    join([i \in 1..Len(names) |-> replace(names[i], "-", " ")], <<",", " ">>)

AbilityNames == StringsUpTo(AbilityChars, MaxAbilityLen) \ {<<>>}

RECURSIVE ListsUpTo(_, _)
ListsUpTo(items, n) ==
    IF n = 0 THEN {<<>>}
    ELSE LET shorter == ListsUpTo(items, n - 1)
         IN  shorter \cup {Append(l, x) : l \in shorter, x \in items}

\* the card of the creature is rendered
RenderCard ==
    /\ ev.op # "render"
    /\ shown' = AbilitiesText(abilities)
    /\ ev' = Event("render", 0, <<>>, <<>>, <<>>)
    /\ UNCHANGED <<mounted, searchTerm, pokemonList, isLoading, error,
                   fetches, abilities>>

-----------------------------------------------------------------------------
(* Specifications *)

Init ==
    /\ mounted = FALSE
    /\ searchTerm = <<>>
    /\ pokemonList = <<>>
    /\ isLoading = FALSE
    /\ error = null
    /\ fetches = <<>>
    /\ ev = Event("init", 0, <<>>, <<>>, <<>>)
    /\ abilities = <<>>
    /\ shown = <<>>

Responses == {"reject", "notok", "ok"}

\* the page: any interleaving of user events and answers of the remote source
Next ==
    \/ Mount
    \/ \E value \in SearchTexts : InputChange(value)
    \/ handleSearch
    \/ \E type \in TypeButtons : TypeClick(type)
    \/ \E k \in InFlight, r \in Responses : NameResponse(k, r)
    \/ \E k \in InFlight, parsed \in BOOLEAN : NameJson(k, parsed)
    \/ \E k \in InFlight, r \in Responses : TypeResponse(k, r)
    \/ \E k \in InFlight : TypeMalformed(k)
    \/ \E k \in InFlight, n \in 0..MaxMembers : TypeJson(k, n)
    \/ \E k \in InFlight, i \in 1..SliceEnd : MemberReject(k, i)
    \/ \E k \in InFlight, i \in 1..SliceEnd, ok \in BOOLEAN :
           MemberAnswer(k, i, ok)

Spec == Init /\ [][Next]_vars

\* the type lookup of the mount effect alone, with membership lists longer
\* than the slice and member requests that answer 2xx or reject
NextBatch ==
    \/ Mount
    \/ \E k \in InFlight, r \in Responses : TypeResponse(k, r)
    \/ \E k \in InFlight : TypeMalformed(k)
    \/ \E k \in InFlight, n \in 0..MaxBatchMembers : TypeJson(k, n)
    \/ \E k \in InFlight, i \in 1..SliceEnd : MemberReject(k, i)
    \/ \E k \in InFlight, i \in 1..SliceEnd : MemberAnswer(k, i, TRUE)

SpecBatch == Init /\ [][NextBatch]_vars

\* the rendering of one card, for every creature within the bounds
InitRender ==
    /\ mounted = FALSE
    /\ searchTerm = <<>>
    /\ pokemonList = <<>>
    /\ isLoading = FALSE
    /\ error = null
    /\ fetches = <<>>
    /\ ev = Event("init", 0, <<>>, <<>>, <<>>)
    /\ abilities \in ListsUpTo(AbilityNames, MaxAbilities)
    /\ shown = <<>>

NextRender == RenderCard

SpecRender == InitRender /\ [][NextRender]_vars

-----------------------------------------------------------------------------
(* Properties *)

LoadedOps == {"nameLoaded", "typeLoaded"}

FailedOps == {"nameFailed", "typeFailed"}

\* the step taken last was the return of a call
JustSettled == ev.op \in LoadedOps \cup FailedOps

\* C1: isLoading is true exactly when at least one fetch has started and not
\* yet settled, overlapping fetches included.
C1_LoadingIffInFlight == isLoading <=> InFlight # {}

\* C2: when a fetch has just settled, exactly one of "the result list is
\* non-empty" and "error is non-null" holds: a success leaves results set and
\* error null, a failure leaves error set and the result list empty.
C2_ExactlyOneOfResultsAndError ==
    JustSettled =>
        /\ (pokemonList # <<>>) # (error # null)
        /\ ev.op \in LoadedOps => pokemonList # <<>> /\ error = null
        /\ ev.op \in FailedOps => pokemonList = <<>> /\ error # null

\* C3: a type lookup whose membership request and member requests all succeed
\* leaves min(20, member_count) entries, entry i being the record fetched from
\* the i-th reference of the membership list, whatever the order in which the
\* member requests answered.
C3_FirstTwentyInOrder ==
    ev.op = "typeLoaded" =>
        /\ Len(pokemonList) = IF Len(ev.members) < 20 THEN Len(ev.members)
                              ELSE 20
        /\ \A i \in 1..Len(pokemonList) :
               pokemonList[i] = Body(ev.members[i], TRUE)

C3_Witness ==
    /\ ev.op = "typeLoaded"
    /\ Len(ev.members) > 20
    /\ Len(pokemonList) = 20

\* C4: a name lookup that meets a non-success status, a network failure or an
\* unparseable body ends with the name message in error, an empty result list
\* and isLoading false; it issues no further request and it returns.
C4_NameFailure ==
    ev.op = "nameFailed" =>
        /\ error = NameMessage
        /\ pokemonList = <<>>
        /\ ~isLoading
        /\ ev.reqs = <<>>
        /\ fetches[ev.f] = Returned

C4_Witness ==
    /\ ev.op = "nameFailed"
    /\ ev.input = <<"notok">>
    /\ error = NameMessage

\* C5: submitting the search form while searchTerm is empty or blank issues
\* no request and leaves searchTerm, the result list, isLoading and error
\* unchanged.
C5_BlankSubmitIsNoOp ==
    [][(ev'.op = "handleSearch" /\ trim(searchTerm) = <<>>) =>
          /\ UNCHANGED <<searchTerm, pokemonList, isLoading, error, fetches>>
          /\ ev'.reqs = <<>>
          /\ ev'.f = 0]_vars

C5_Witness ==
    /\ ev.op = "handleSearch"
    /\ searchTerm = <<" ">>
    /\ ev.f = 0
    /\ pokemonList # <<>>

\* C6: a type lookup is all-or-nothing: when the membership request fails or a
\* member request rejects, it ends with the type message in error and an empty
\* result list, and no member fetched by a batch that is not complete is ever
\* in the result list.
C6_AllOrNothing ==
    /\ ev.op = "typeFailed" => error = TypeMessage /\ pokemonList = <<>>
    /\ pokemonList # <<>> =>
           /\ ev.op = "typeLoaded"
           /\ Len(pokemonList) = Len(pokemonUrls(ev.members))
           /\ \A i \in 1..Len(pokemonList) : pokemonList[i] # Pending

\* a member request rejected after another had answered
C6_Witness ==
    /\ ev.op = "typeFailed"
    /\ ev.input = <<"member">>
    /\ \E i \in 1..Len(ev.values) : ev.values[i] # Pending
    /\ pokemonList = <<>>

\* C7: when the first of two overlapping fetches settles after the second, the
\* result list and error shown after both have settled are the ones produced
\* by the fetch that settled last.
C7_LastSettledWins ==
    (/\ JustSettled
     /\ Len(fetches) = 2
     /\ InFlight = {}
     /\ ev.f = 1) =>
        /\ ev.op = "nameLoaded" => Len(pokemonList) = 1 /\ error = null
        /\ ev.op = "typeLoaded" => pokemonList = ev.values /\ error = null
        /\ ev.op = "nameFailed" => pokemonList = <<>> /\ error = NameMessage
        /\ ev.op = "typeFailed" => pokemonList = <<>> /\ error = TypeMessage

\* C8: every failure of a request of a fetch routine ends in error with the
\* routine's message; a member request answered with a non-2xx status never
\* contributes an entry to the result list.
C8_NonOkNeverListed ==
    /\ ev.op = "nameFailed" => error = NameMessage
    /\ ev.op = "typeFailed" => error = TypeMessage
    /\ \A i \in 1..Len(pokemonList) : pokemonList[i].ok

\* every occurrence of the pattern replaced
RECURSIVE C9_replaceAll(_, _, _)
C9_replaceAll(s, pattern, by) ==
    IF s = <<>> THEN <<>>
    ELSE <<IF Head(s) = pattern THEN by ELSE Head(s)>>
             \o C9_replaceAll(Tail(s), pattern, by)

\* C9: the abilities text is the ability names in source order, joined by
\* ", ", with every hyphen of every name replaced by a space.
C9_EveryHyphenReplaced ==
    ev.op = "render" =>
        shown = join([i \in 1..Len(abilities) |->
                         C9_replaceAll(abilities[i], "-", " ")],
                     <<",", " ">>)

\* C10: a submission whose trimmed input is non-empty issues exactly one GET,
\* to pokemon/{n} with n the lowercase of the trimmed searchTerm; the name
\* passed to fetchPokemonByName has no leading or trailing whitespace.
C10_TrimmedLowercaseName ==
    (ev.op = "handleSearch" /\ trim(searchTerm) # <<>>) =>
        /\ ev.arg = trim(searchTerm)
        /\ ev.reqs = <<(<<"pokemon/">> \o toLowerCase(trim(searchTerm)))>>

====
